---- MODULE Spec2Model ----
(***************************************************************************)
(* Model of pbtools/pbtranscript/fusion_finder.py: the junction            *)
(* compatibility predicate, the greedy fusion-exon merger, the fusion      *)
(* candidate filter, the locus window stream and the final pairing pass.   *)
(*                                                                         *)
(* Python values are modelled as follows: a list is a sequence, a dict is  *)
(* a function, an object reference is an index into the list that owns the *)
(* object, and the return value of is_fusion_compatible is one of the      *)
(* strings "True", "False", "None" (the function falls off its end) and    *)
(* "Exception" (the function raises).                                      *)
(***************************************************************************)
EXTENDS Integers, Sequences, FiniteSets, TLC

VARIABLES
    \* ---- is_fusion_compatible / merge_fusion_exons
    records,        \* the list handed to merge_fusion_exons (one strand bucket)
    cj,             \* answers of compare_junctions, keyed by <<segments, segments>>
    maxDist,        \* max_fusion_point_dist
    allow5,         \* allow_extra_5_exons
    ret,            \* last return value of is_fusion_compatible(records[1], records[2])
    output,         \* what merge_fusion_exons returned: [status, groups]
    \* ---- find_fusion_candidates
    alns,           \* the records of the SAM file, in file order
    cands,          \* the returned fusion_candidates (as a set)
    cdone,          \* whether find_fusion_candidates has returned
    \* ---- iter_gmap_sam_for_fusion
    sam,            \* the records of the sorted SAM file
    fusion_candidates, \* the candidate qIDs handed to the generator
    pos,            \* number of records already read from the reader
    buf,            \* the local list "records" of the generator
    windows,        \* the windows yielded so far
    sstatus,        \* "first" (loop 1), "rest" (loop 2), "done", "abort", or "idle"
    \* ---- fusion_main steps 2-4
    merged_exons,   \* list of groups, a group being the list of its records' qIDs
    ptr,            \* compressed_records_pointer_dict
    tmp,            \* the lines of branch_tmp.group.txt
    rd,             \* number of lines of tmp already read by step 4
    rows,           \* the lines written to <prefix>.group.txt
    count,          \* the counter reported at the end
    astatus         \* "start", "written" (step 4 running), "done", "crash", or "idle"

vars_m == <<records, cj, maxDist, allow5, ret, output>>
vars_c == <<alns, cands, cdone>>
vars_s == <<sam, fusion_candidates, pos, buf, windows, sstatus>>
vars_a == <<merged_exons, ptr, tmp, rd, rows, count, astatus>>
vars == <<vars_m, vars_c, vars_s, vars_a>>

Abs(x) == IF x < 0 THEN -x ELSE x

Max2(a, b) == IF a >= b THEN a ELSE b

Min2(a, b) == IF a <= b THEN a ELSE b

Range(s) == {s[i] : i \in 1..Len(s)}

(***************************************************************************)
(* Records.  Seg is one exon block; a record carries its strand, qStart,   *)
(* segments, and sStart/sEnd which the reader sets to the start of the     *)
(* first segment and the end of the last.                                  *)
(***************************************************************************)
Seg(s, e) == [start |-> s, end |-> e]

MkRec(strand, qStart, segs) ==
    [strand |-> strand, qStart |-> qStart, segments |-> segs,
     sStart |-> segs[1].start, sEnd |-> segs[Len(segs)].end]

Labels == {"exact", "super", "subset", "partial", "nomatch"}

\* compare_junctions is imported from counting/compare_junctions.py; its
\* answer for a pair of exon chains is an input of the model.
compare_junctions(r1, r2) == cj[<<r1.segments, r2.segments>>]

MAX_QSTART_FOR_5 == 100

FusionMainMaxDist == 100

\* Lines 35-42: the early "return False" of the portion test.
PortionMismatch(r1, r2) ==
    IF r1.qStart < MAX_QSTART_FOR_5
    THEN r2.qStart > MAX_QSTART_FOR_5
    ELSE r2.qStart < MAX_QSTART_FOR_5

\* Mutant of FusionPointDist: the fusion point is always taken at sEnd.
FusionPointDist_alwaysEnd(r1, r2, in_5_portion, plus_is_5end) ==
    Abs(r1.sEnd - r2.sEnd)

\* Lines 50-51: the distance between the fusion points of two single-exon
\* records.
FusionPointDist(r1, r2, in_5_portion, plus_is_5end) ==
    IF in_5_portion /\ plus_is_5end
    THEN Abs(r1.sStart - r2.sStart)
    ELSE Abs(r1.sEnd - r2.sEnd)

\* is_fusion_compatible, lines 20-73.  The super/subset branch returns
\* False on each failed test and otherwise reaches the end of the function
\* without a return statement, which yields None.
is_fusion_compatible(r1, r2, max_fusion_point_dist, allow_extra_5_exons) ==
    IF PortionMismatch(r1, r2) THEN "False"
    ELSE LET in_5_portion == r1.qStart < MAX_QSTART_FOR_5
             plus_is_5end == (r1.strand = "+")
             type == compare_junctions(r1, r2)
             n1 == Len(r1.segments)
             n2 == Len(r2.segments)
         IN  IF type = "exact"
             THEN IF n1 = 1
                  THEN IF n2 = 1
                       THEN IF FusionPointDist(r1, r2, in_5_portion, plus_is_5end)
                                  <= max_fusion_point_dist
                            THEN "True" ELSE "False"
                       ELSE "Exception"
                  ELSE "True"
             ELSE IF type = "super" \/ type = "subset"
             THEN IF allow_extra_5_exons
                  THEN IF in_5_portion /\ plus_is_5end
                       THEN IF r1.segments[n1].start # r2.segments[n2].start
                            THEN "False"
                            ELSE IF Abs(r1.segments[n1].end - r2.segments[n2].end)
                                      > max_fusion_point_dist
                            THEN "False"
                            ELSE "None"
                       ELSE IF in_5_portion /\ ~plus_is_5end
                       THEN IF r1.segments[1].end # r2.segments[1].end
                            THEN "False"
                            ELSE IF Abs(r1.segments[1].start - r2.segments[1].start)
                                      > max_fusion_point_dist
                            THEN "False"
                            ELSE "None"
                       ELSE "False"
                  ELSE "False"
             ELSE "False"

\* Truth value Python gives a return value inside all(...): None is falsy.
Truthy(v) == v = "True"

(***************************************************************************)
(* merge_fusion_exons, lines 75-100.  Groups hold indices into recs (the   *)
(* code appends the record objects themselves).  all(...) evaluates the    *)
(* predicate member by member and stops at the first falsy value; an       *)
(* exception raised before that leaves the function.                       *)
(***************************************************************************)
RECURSIVE AllCompat(_, _, _, _, _, _)
AllCompat(recs, i, r2s, k, D, allow) ==
    IF k > Len(r2s) THEN "True"
    ELSE LET v == is_fusion_compatible(recs[i], recs[r2s[k]], D, allow)
         IN  IF v = "Exception" THEN "Exception"
             ELSE IF ~Truthy(v) THEN "False"
             ELSE AllCompat(recs, i, r2s, k + 1, D, allow)

\* The inner loop "for i, r2s in enumerate(output)": the index of the first
\* group that takes record i, 0 when none does, -1 when the predicate raised.
RECURSIVE FirstFit(_, _, _, _, _, _)
FirstFit(recs, i, out, g, D, allow) ==
    IF g > Len(out) THEN 0
    ELSE LET a == AllCompat(recs, i, out[g], 1, D, allow)
         IN  IF a = "Exception" THEN -1
             ELSE IF a = "True" THEN g
             ELSE FirstFit(recs, i, out, g + 1, D, allow)

\* Mutant of MergeStep: a record joins the first group whose FIRST member is
\* compatible with it (representative test instead of the clique test).
MergeStep_representative(recs, i, out, D, allow) ==
    LET fits == {g \in 1..Len(out) :
                    Truthy(is_fusion_compatible(recs[i], recs[out[g][1]], D, allow))}
    IN  IF fits = {} THEN [status |-> "ok", groups |-> Append(out, <<i>>)]
        ELSE LET g == CHOOSE x \in fits : \A y \in fits : x <= y
             IN  [status |-> "ok",
                  groups |-> [out EXCEPT ![g] = Append(out[g], i)]]

\* One iteration of "for r1 in records[1:]" (lines 90-99).
MergeStep(recs, i, out, D, allow) ==
    LET g == FirstFit(recs, i, out, 1, D, allow)
    IN  IF g = -1 THEN [status |-> "raised", groups |-> out]
        ELSE IF g = 0 THEN [status |-> "ok", groups |-> Append(out, <<i>>)]
        ELSE [status |-> "ok", groups |-> [out EXCEPT ![g] = Append(out[g], i)]]

RECURSIVE MergeFrom(_, _, _, _, _)
MergeFrom(recs, i, out, D, allow) ==
    IF i > Len(recs) THEN [status |-> "ok", groups |-> out]
    ELSE LET s == MergeStep(recs, i, out, D, allow)
         IN  IF s.status = "raised" THEN [status |-> "raised", groups |-> <<>>]
             ELSE MergeFrom(recs, i + 1, s.groups, D, allow)

merge_fusion_exons(recs, max_fusion_point_dist, allow_extra_5_exons) ==
    MergeFrom(recs, 2, <<<<1>>>>, max_fusion_point_dist, allow_extra_5_exons)

(***************************************************************************)
(* Inputs of the predicate and of the merger.                              *)
(***************************************************************************)
Strands == {"+", "-"}

\* qStart values around MAX_QSTART_FOR_5.
QStarts == {MAX_QSTART_FOR_5 - 1, MAX_QSTART_FOR_5, MAX_QSTART_FOR_5 + 1}

\* Single-exon chains.  s1/s2 differ by exactly FusionMainMaxDist at both
\* ends; s2/s3 differ by 1 at the start and FusionMainMaxDist + 1 at the end;
\* s1/s3 differ by FusionMainMaxDist + 1 at the start.
s1 == <<Seg(1000, 2000)>>

s2 == <<Seg(1000 + FusionMainMaxDist, 2000 + FusionMainMaxDist)>>

s3 == <<Seg(1001 + FusionMainMaxDist, 2001 + 2 * FusionMainMaxDist)>>

\* Multi-exon chains.  mL extends m1 by an exon on the left and ends
\* FusionMainMaxDist after it; mR extends m1 by an exon on the right and
\* starts FusionMainMaxDist after it; m3 has m1's last-segment start but ends
\* FusionMainMaxDist + 1 after it, and another first-segment end.
m1 == <<Seg(1000, 1200), Seg(1500, 2000)>>

mL == <<Seg(500, 700), Seg(1000, 1200), Seg(1500, 2000 + FusionMainMaxDist)>>

mR == <<Seg(1000 + FusionMainMaxDist, 1200), Seg(1500, 2000), Seg(2300, 2500)>>

m3 == <<Seg(999, 1250), Seg(1500, 2001 + FusionMainMaxDist)>>

CompatChains == {s1, s2, s3, m1, mL, mR, m3}

CompatDists == {0, FusionMainMaxDist}

\* No call of merge_fusion_exons has returned yet.
NoOutput == [status |-> "unset", groups |-> <<>>]

IdleM ==
    /\ records = <<>> /\ cj = <<>> /\ maxDist = 0 /\ allow5 = FALSE
    /\ ret = "unset" /\ output = NoOutput

IdleC == alns = <<>> /\ cands = {} /\ cdone = FALSE

IdleS ==
    /\ sam = <<>> /\ fusion_candidates = {} /\ pos = 0 /\ buf = <<>>
    /\ windows = <<>> /\ sstatus = "idle"

IdleA ==
    /\ merged_exons = <<>> /\ ptr = <<>> /\ tmp = <<>> /\ rd = 0
    /\ rows = <<>> /\ count = 0 /\ astatus = "idle"

\* A two-record strand bucket <<member, new>> and the classifier's answer
\* for the one call merge_fusion_exons makes on it:
\* is_fusion_compatible(new, member, ...).
InitCompat ==
    /\ \E st \in Strands, qa \in QStarts, qb \in QStarts,
          ca \in CompatChains, cb \in CompatChains, t \in Labels :
          /\ records = <<MkRec(st, qa, ca), MkRec(st, qb, cb)>>
          /\ cj = (<<cb, ca>> :> t)
    /\ maxDist \in CompatDists
    /\ allow5 \in BOOLEAN
    /\ ret = "unset"
    /\ output = NoOutput
    /\ IdleC /\ IdleS /\ IdleA

\* The call of line 94 for r1 = records[2] (the record being placed) and
\* r2 = records[1] (the member of the only group).
Compat ==
    /\ Len(records) = 2
    /\ ret = "unset"
    /\ ret' = is_fusion_compatible(records[2], records[1], maxDist, allow5)
    /\ UNCHANGED <<records, cj, maxDist, allow5, output>>
    /\ UNCHANGED <<vars_c, vars_s, vars_a>>

\* A call of merge_fusion_exons on the bucket.
Merge ==
    /\ Len(records) >= 1
    /\ output = NoOutput
    /\ output' = merge_fusion_exons(records, maxDist, allow5)
    /\ UNCHANGED <<records, cj, maxDist, allow5, ret>>
    /\ UNCHANGED <<vars_c, vars_s, vars_a>>

NextCompat == Compat \/ Merge

SpecCompat == InitCompat /\ [][NextCompat]_vars

(***************************************************************************)
(* Buckets of up to MaxRecs records for the merger.  The classifier's      *)
(* answers are a table over the kinds (single-/multi-exon) of the two      *)
(* chains; "exact" is given for both argument orders or for neither.       *)
(***************************************************************************)
MaxRecs == 3

Kinds == {"single", "multi"}

Kind(c) == IF Len(c) = 1 THEN "single" ELSE "multi"

sFar == <<Seg(1000 + 2 * FusionMainMaxDist, 2000 + 2 * FusionMainMaxDist)>>

MergeChains == {s1, s2, sFar, m1}

MergeQStarts == {MAX_QSTART_FOR_5 - 1, MAX_QSTART_FOR_5}

MergeLabels == {"exact", "subset", "partial"}

MergeTables ==
    {t \in [Kinds \X Kinds -> MergeLabels] :
        /\ t[<<"multi", "multi">>] = "exact"
        /\ (t[<<"single", "multi">>] = "exact") <=> (t[<<"multi", "single">>] = "exact")}

MergePool(st) == {MkRec(st, q, c) : q \in MergeQStarts, c \in MergeChains}

SeqsUpTo(S, n) == UNION {[1..k -> S] : k \in 1..n}

InitMerge ==
    /\ \E st \in Strands : records \in SeqsUpTo(MergePool(st), MaxRecs)
    /\ \E t \in MergeTables :
          cj = [p \in {<<a.segments, b.segments>> : a \in Range(records),
                                                   b \in Range(records)}
                  |-> t[<<Kind(p[1]), Kind(p[2])>>]]
    /\ maxDist = FusionMainMaxDist
    /\ allow5 \in BOOLEAN
    /\ ret = "unset"
    /\ output = NoOutput
    /\ IdleC /\ IdleS /\ IdleA

NextMerge == Compat \/ Merge

SpecMerge == InitMerge /\ [][NextMerge]_vars

(***************************************************************************)
(* Properties of is_fusion_compatible and merge_fusion_exons.              *)
(***************************************************************************)
\* The record being placed and the group member of the call recorded in ret.
NewRec == records[2]

OldRec == records[1]

CallDone == Len(records) = 2 /\ ret # "unset"

MergeDone == output.status # "unset"

CallLabel == compare_junctions(NewRec, OldRec)

In5(r) == r.qStart < MAX_QSTART_FOR_5

SingleExon(r) == Len(r.segments) = 1

LastSeg(r) == r.segments[Len(r.segments)]

FirstSeg(r) == r.segments[1]

\* C1: every group of the output of merge_fusion_exons is a clique under
\* is_fusion_compatible: any two distinct members of a group are compatible
\* in either argument order.  Stated for buckets of single-exon records, for
\* which the predicate never raises.
C1_GroupsAreCliques ==
    (output.status = "ok" /\ \A i \in 1..Len(records) : SingleExon(records[i])) =>
        \A g \in 1..Len(output.groups) :
            \A a \in Range(output.groups[g]), b \in Range(output.groups[g]) :
                a # b => is_fusion_compatible(records[a], records[b], maxDist, allow5)
                            = "True"

\* The case of claim C4: super/subset between chains of different exon
\* counts, allow_extra_5_exons, both records in the 5' portion, and the
\* strand's junction and end tests satisfied.
C4_Case ==
    /\ CallLabel \in {"super", "subset"}
    /\ Len(NewRec.segments) # Len(OldRec.segments)
    /\ allow5
    /\ In5(NewRec) /\ In5(OldRec)
    /\ \/ /\ NewRec.strand = "+"
          /\ LastSeg(NewRec).start = LastSeg(OldRec).start
          /\ Abs(LastSeg(NewRec).end - LastSeg(OldRec).end) <= maxDist
       \/ /\ NewRec.strand = "-"
          /\ FirstSeg(NewRec).end = FirstSeg(OldRec).end
          /\ Abs(FirstSeg(NewRec).start - FirstSeg(OldRec).start) <= maxDist

\* C4: for a super/subset relation with allow_extra_5_exons, both records in
\* the 5' portion and the 3' junction and end tests of the strand passed, the
\* predicate returns True and the merger puts the two records in one group.
C4_Extra5ExonsCompatible ==
    (Len(records) = 2 /\ C4_Case) =>
        /\ ret # "unset" => ret = "True"
        /\ MergeDone => (output.status = "ok" /\ Len(output.groups) = 1)

\* The case of claim C5: exact, both single-exon, both in the same portion.
C5_Case ==
    /\ CallLabel = "exact"
    /\ SingleExon(NewRec) /\ SingleExon(OldRec)
    /\ In5(NewRec) = In5(OldRec)

\* The fusion-point distance as claim C5 states it.
C5_Dist ==
    IF In5(NewRec) /\ In5(OldRec) /\ NewRec.strand = "+"
    THEN Abs(NewRec.sStart - OldRec.sStart)
    ELSE Abs(NewRec.sEnd - OldRec.sEnd)

\* C5: for an exact relation between two single-exon records of the same
\* query portion the predicate returns True iff the fusion-point distance is
\* at most D (sStart in the 5' portion on strand '+', sEnd otherwise), False
\* otherwise, and the merger makes one group iff it is True, else two.
C5_ExactSingleExonDistance ==
    (Len(records) = 2 /\ C5_Case) =>
        /\ ret # "unset" => ret = (IF C5_Dist <= maxDist THEN "True" ELSE "False")
        /\ MergeDone =>
              /\ output.status = "ok"
              /\ output.groups = (IF C5_Dist <= maxDist THEN <<<<1, 2>>>>
                                  ELSE <<<<1>>, <<2>>>>)

\* Witness of C5: the boundary on strand '+' in the 5' portion, where the
\* sStart values are exactly D > 0 apart and the two records share a group.
C5_Witness ==
    /\ CallDone /\ MergeDone /\ C5_Case
    /\ NewRec.strand = "+" /\ In5(NewRec)
    /\ maxDist > 0
    /\ Abs(NewRec.sStart - OldRec.sStart) = maxDist
    /\ ret = "True"
    /\ output.groups = <<<<1, 2>>>>

\* C6: when the relation is exact and exactly one of the two records is
\* single-exon, in either argument order, the predicate raises (stated for
\* records of the same query portion, where the relation is consulted).
C6_MixedExactRaises ==
    (CallDone /\ CallLabel = "exact" /\ In5(NewRec) = In5(OldRec)
       /\ SingleExon(NewRec) # SingleExon(OldRec))
        => ret = "Exception"

\* C7: a record is in the 5' portion iff qStart < 100, and when exactly one
\* of the two records is, the predicate returns False whatever the relation
\* and the argument order.
C7_PortionMismatchRejected ==
    (CallDone /\ In5(NewRec) # In5(OldRec)) => ret = "False"

(***************************************************************************)
(* find_fusion_candidates, lines 127-152.  Coverages are fractions in the  *)
(* code; the model keeps them as integers: qCov as a percentage, and the   *)
(* test total/qLen >= .99 as 100 * total >= 99 * qLen.                     *)
(***************************************************************************)
MinLocusCoveragePct == 10

MinTotalCoveragePct == 99

MinDistBetweenLoci == 100000

\* A record as the reader hands it over: qCoverage is the part of the read
\* the record covers.
MkAln(qID, qLen, q, locus) ==
    [qID |-> qID, qLen |-> qLen, qStart |-> q[1], qEnd |-> q[2],
     qCov |-> ((q[2] - q[1]) * 100) \div qLen,
     sID |-> locus[1], sStart |-> locus[2], sEnd |-> locus[3]]

\* tree.insert(qStart, qEnd): the new interval is merged with every region
\* it overlaps or touches.
ClusterInsert(regions, s, e) ==
    LET hit == {g \in regions : g[1] <= e /\ s <= g[2]}
        lo == CHOOSE x \in {s} \cup {g[1] : g \in hit} :
                  \A y \in {s} \cup {g[1] : g \in hit} : x <= y
        hi == CHOOSE x \in {e} \cup {g[2] : g \in hit} :
                  \A y \in {e} \cup {g[2] : g \in hit} : x >= y
    IN  (regions \ hit) \cup {<<lo, hi>>}

RECURSIVE ClusterAll(_, _, _)
ClusterAll(data, k, regions) ==
    IF k > Len(data) THEN regions
    ELSE ClusterAll(data, k + 1, ClusterInsert(regions, data[k].qStart, data[k].qEnd))

RECURSIVE SumRegions(_)
SumRegions(regions) ==
    IF regions = {} THEN 0
    ELSE LET g == CHOOSE x \in regions : TRUE
         IN  (g[2] - g[1]) + SumRegions(regions \ {g})

\* Lines 136-139.
total_coverage(tmprecs) == SumRegions(ClusterAll(tmprecs, 1, {}))

\* Mutant of LociApart: the gap must exceed the threshold.
LociApart_strict(a, b, min_dist_between_loci) ==
    Max2(a.sStart, b.sStart) - Min2(a.sEnd, b.sEnd) > min_dist_between_loci

\* Line 149: the distance test on one pair of records.
LociApart(a, b, min_dist_between_loci) ==
    Max2(a.sStart, b.sStart) - Min2(a.sEnd, b.sEnd) >= min_dist_between_loci

\* d[k]: the records of read k in file order (line 143).
ReadData(file, k) == SelectSeq(file, LAMBDA r : r.qID = k)

\* Lines 146-150: the test on one read.
IsFusionCandidate(data) ==
    /\ Len(data) > 1
    /\ \A i \in 1..Len(data) : data[i].qCov >= MinLocusCoveragePct
    /\ total_coverage(data) * 100 >= MinTotalCoveragePct * data[1].qLen
    /\ \A i \in 1..Len(data), j \in 1..Len(data) :
          i < j => LociApart(data[i], data[j], MinDistBetweenLoci)

find_fusion_candidates(file) ==
    {k \in {file[i].qID : i \in 1..Len(file)} : IsFusionCandidate(ReadData(file, k))}

MaxAlns == 3

ReadLen == 100

\* Query intervals of read "A": 10% and 9% at the start, and the rest of the
\* read from 11 or from 12 (99% or 98% together with the first 10).
QueryParts == {<<0, 10>>, <<0, 9>>, <<11, ReadLen>>, <<12, ReadLen>>}

\* Loci <<contig, start, end>>: two on contig 1 exactly MinDistBetweenLoci
\* after the first and one base closer, one further away, and one on contig 2
\* next to the first.
Loci ==
    { <<1, 0, 1000>>,
      <<1, 1000 + MinDistBetweenLoci, 2000 + MinDistBetweenLoci>>,
      <<1, 999 + MinDistBetweenLoci, 2000 + MinDistBetweenLoci>>,
      <<1, 3000 + 2 * MinDistBetweenLoci, 4000 + 2 * MinDistBetweenLoci>>,
      <<2, 500, 1500>> }

AlnPool ==
    {MkAln("A", ReadLen, q, l) : q \in QueryParts, l \in Loci}
    \cup {MkAln("B", ReadLen, <<0, ReadLen>>, l) :
             l \in {<<1, 0, 1000>>, <<2, 500, 1500>>}}

InitCand ==
    /\ alns \in SeqsUpTo(AlnPool, MaxAlns)
    /\ cands = {}
    /\ cdone = FALSE
    /\ IdleM /\ IdleS /\ IdleA

FindCandidates ==
    /\ ~cdone
    /\ Len(alns) >= 1
    /\ cands' = find_fusion_candidates(alns)
    /\ cdone' = TRUE
    /\ UNCHANGED alns
    /\ UNCHANGED <<vars_m, vars_s, vars_a>>

NextCand == FindCandidates

SpecCand == InitCand /\ [][NextCand]_vars

(***************************************************************************)
(* Properties of find_fusion_candidates.                                   *)
(***************************************************************************)
ReadIDs == {alns[i].qID : i \in 1..Len(alns)}

RecsOf(k) == {i \in 1..Len(alns) : alns[i].qID = k}

OneContig(k) == \A i \in RecsOf(k), j \in RecsOf(k) : alns[i].sID = alns[j].sID

\* Number of query positions covered by at least one record of read k.
CoveredLen(k) ==
    Cardinality({x \in 0..(ReadLen - 1) :
                    \E i \in RecsOf(k) : alns[i].qStart <= x /\ x < alns[i].qEnd})

CountAndCoverageOK(k) ==
    /\ Cardinality(RecsOf(k)) >= 2
    /\ \A i \in RecsOf(k) : alns[i].qCov >= MinLocusCoveragePct
    /\ CoveredLen(k) * 100 >= MinTotalCoveragePct * ReadLen

Gap(i, j) ==
    Max2(alns[i].sStart, alns[j].sStart) - Min2(alns[i].sEnd, alns[j].sEnd)

\* C2: a read whose records all lie on one contig is a candidate iff it has
\* at least 2 records, each with coverage >= min_locus_coverage, the union of
\* its query intervals covers >= min_total_coverage of the read, and every
\* pair of its records is at least min_dist_between_loci apart; and only
\* reads of the file are candidates.
C2_CandidateIffFourGates ==
    cdone =>
        /\ cands \subseteq ReadIDs
        /\ \A k \in ReadIDs :
              OneContig(k) =>
                 (k \in cands <=>
                     /\ CountAndCoverageOK(k)
                     /\ \A i \in RecsOf(k), j \in RecsOf(k) :
                           i # j => Gap(i, j) >= MinDistBetweenLoci)

\* Witness of C2: a candidate read on one contig whose query intervals leave
\* one base uncovered (99% exactly) and whose two loci are exactly
\* min_dist_between_loci apart, next to a read that is no candidate.
C2_Witness ==
    /\ cdone
    /\ "A" \in cands /\ OneContig("A")
    /\ Cardinality(RecsOf("A")) = 2
    /\ CoveredLen("A") = ReadLen - 1
    /\ \A i \in RecsOf("A"), j \in RecsOf("A") :
          i # j => Gap(i, j) = MinDistBetweenLoci
    /\ "B" \in ReadIDs /\ "B" \notin cands

\* C3: records of a read on different contigs pass the distance test
\* whatever their coordinates: a read that meets the count and coverage
\* conditions and whose same-contig pairs are far enough apart is a candidate.
C3_OtherContigPassesDistance ==
    cdone =>
        \A k \in ReadIDs :
            (/\ CountAndCoverageOK(k)
             /\ \A i \in RecsOf(k), j \in RecsOf(k) :
                   (i # j /\ alns[i].sID = alns[j].sID)
                       => Gap(i, j) >= MinDistBetweenLoci)
                => k \in cands

(***************************************************************************)
(* iter_gmap_sam_for_fusion, lines 102-125.  The generator is one step per *)
(* record read; buf and the windows hold indices into sam (the code holds  *)
(* the record objects).                                                    *)
(***************************************************************************)
\* Lines 14-18.
sep_by_strand(recs) ==
    [st \in Strands |-> SelectSeq(recs, LAMBDA i : sam[i].strand = st)]

\* Mutant of SortViolation: the end of the new record is compared.
SortViolation_end(r, recs) ==
    Len(recs) >= 1 /\ r.sEnd < sam[recs[Len(recs)]].sStart

\* Line 115: the test that ends the run.
SortViolation(r, recs) ==
    Len(recs) >= 1 /\ r.sStart < sam[recs[Len(recs)]].sStart

\* Mutant of NeedFlush: the contig of the new record is not looked at.
NeedFlush_noContig(r, recs) ==
    Len(recs) >= 1 /\ r.sStart > sam[recs[Len(recs)]].sEnd

\* Line 118: the test that closes the window.
NeedFlush(r, recs) ==
    Len(recs) >= 1
    /\ (r.sID # sam[recs[1]].sID \/ r.sStart > sam[recs[Len(recs)]].sEnd)

\* Lines 109-112, one iteration: records before the first candidate are
\* dropped; the first candidate opens the buffer and ends the loop.
ReadFirst ==
    /\ sstatus = "first"
    /\ pos < Len(sam)
    /\ pos' = pos + 1
    /\ IF sam[pos + 1].qID \in fusion_candidates
       THEN buf' = <<pos + 1>> /\ sstatus' = "rest"
       ELSE buf' = buf /\ sstatus' = sstatus
    /\ UNCHANGED <<sam, fusion_candidates, windows>>
    /\ UNCHANGED <<vars_m, vars_c, vars_a>>

\* Lines 114-122, one iteration.
ReadNext ==
    /\ sstatus = "rest"
    /\ pos < Len(sam)
    /\ pos' = pos + 1
    /\ LET r == sam[pos + 1]
       IN  IF SortViolation(r, buf)
           THEN /\ sstatus' = "abort"
                /\ UNCHANGED <<buf, windows>>
           ELSE LET flush == NeedFlush(r, buf)
                    kept == IF flush THEN <<>> ELSE buf
                IN  /\ windows' = IF flush THEN Append(windows, sep_by_strand(buf))
                                  ELSE windows
                    /\ buf' = IF r.qID \in fusion_candidates
                              THEN Append(kept, pos + 1) ELSE kept
                    /\ sstatus' = sstatus
    /\ UNCHANGED <<sam, fusion_candidates>>
    /\ UNCHANGED <<vars_m, vars_c, vars_a>>

\* The reader is exhausted: both loops end, lines 124-125 yield what is left.
Exhausted ==
    /\ sstatus \in {"first", "rest"}
    /\ pos = Len(sam)
    /\ windows' = IF Len(buf) > 0 THEN Append(windows, sep_by_strand(buf))
                  ELSE windows
    /\ buf' = buf
    /\ sstatus' = "done"
    /\ UNCHANGED <<sam, fusion_candidates, pos>>
    /\ UNCHANGED <<vars_m, vars_c, vars_a>>

MaxSam == 3

\* Reference intervals: the second overlaps the first, the third lies
\* beyond both.
Spans == {<<50, 120>>, <<100, 200>>, <<300, 400>>}

Contigs == {1, 2}

\* Records of the candidate read "A" on either strand, and of the read "N"
\* that is no candidate.
StreamPool ==
    {[qID |-> "A", sID |-> c, sStart |-> sp[1], sEnd |-> sp[2], strand |-> st] :
        c \in Contigs, sp \in Spans, st \in Strands}
    \cup {[qID |-> "N", sID |-> c, sStart |-> sp[1], sEnd |-> sp[2], strand |-> "+"] :
        c \in Contigs, sp \in Spans}

InitStream ==
    /\ sam \in SeqsUpTo(StreamPool, MaxSam)
    /\ fusion_candidates = {"A"}
    /\ pos = 0
    /\ buf = <<>>
    /\ windows = <<>>
    /\ sstatus = "first"
    /\ IdleM /\ IdleC /\ IdleA

NextStream == ReadFirst \/ ReadNext \/ Exhausted

SpecStream == InitStream /\ [][NextStream]_vars

(***************************************************************************)
(* Properties of iter_gmap_sam_for_fusion.                                 *)
(***************************************************************************)
\* The next record is a candidate that starts before the last buffered
\* record, which is on the same contig.
C8_Case ==
    /\ sstatus = "rest" /\ pos < Len(sam) /\ Len(buf) >= 1
    /\ sam[pos + 1].qID \in fusion_candidates
    /\ sam[pos + 1].sID = sam[buf[Len(buf)]].sID
    /\ sam[pos + 1].sStart < sam[buf[Len(buf)]].sStart

\* C8: when a candidate record arrives while the buffer is non-empty and
\* starts before the last buffered record on the same contig, the run aborts
\* at that record: nothing is emitted by that step, and after an abort no
\* record is read and no window is emitted any more.
C8_UnsortedCandidateAborts ==
    [][ /\ C8_Case =>
              (sstatus' = "abort" /\ pos' = pos + 1 /\ windows' = windows)
        /\ sstatus = "abort" =>
              (sstatus' = "abort" /\ pos' = pos /\ windows' = windows) ]_vars

\* Witness of C8: the run has aborted at candidate record sam[pos], with a
\* buffered window that was not emitted and a record left unread.
C8_Witness ==
    /\ sstatus = "abort"
    /\ Len(buf) >= 1
    /\ sam[pos].qID \in fusion_candidates
    /\ sam[pos].sID = sam[buf[Len(buf)]].sID
    /\ sam[pos].sStart < sam[buf[Len(buf)]].sStart
    /\ pos < Len(sam)
    /\ \A w \in 1..Len(windows), st \in Strands :
          \A k \in 1..Len(windows[w][st]) : windows[w][st][k] \notin Range(buf)

\* The stream is non-decreasing by (contigID, refStart).
SortedSam ==
    \A i \in 1..(Len(sam) - 1) :
        \/ sam[i].sID < sam[i + 1].sID
        \/ (sam[i].sID = sam[i + 1].sID /\ sam[i].sStart <= sam[i + 1].sStart)

\* C10: on a stream that is non-decreasing by (contigID, refStart) the
\* generator never aborts.
C10_SortedNeverAborts == SortedSam => sstatus # "abort"

(***************************************************************************)
(* fusion_main, steps 2-4 (lines 176-218).  A group of merged_exons is     *)
(* kept as the list of the qIDs of its records; group indices count from 1 *)
(* (merged_i counts from 0 in the code).  A part identifier                *)
(* "PBfusion.<gene>.<part>" is the tuple of its dot-separated fields.      *)
(***************************************************************************)
AsmReads == {"A", "B", "C"}

\* Groups of one or two records.  The records of a group come from different
\* reads: two records of one candidate read lie MinDistBetweenLoci apart
\* (line 150) and so never pass the distance test of lines 50-52 together.
GroupPool ==
    {<<a>> : a \in AsmReads} \cup
    {<<p[1], p[2]>> : p \in {x \in AsmReads \X AsmReads : x[1] # x[2]}}

MaxGroups == 4

\* Lines 180-183: every record of every group appends the group's index to
\* the entry of its read.
RECURSIVE PointerOfGroup(_, _, _, _)
PointerOfGroup(d, group, k, merged_i) ==
    IF k > Len(group) THEN d
    ELSE LET q == group[k]
             old == IF q \in DOMAIN d THEN d[q] ELSE <<>>
         IN  PointerOfGroup([x \in DOMAIN d \cup {q} |->
                                IF x = q THEN Append(old, merged_i) ELSE d[x]],
                            group, k + 1, merged_i)

RECURSIVE BuildPointer(_, _, _)
BuildPointer(d, groups, merged_i) ==
    IF merged_i > Len(groups) THEN d
    ELSE BuildPointer(PointerOfGroup(d, groups[merged_i], 1, merged_i),
                      groups, merged_i + 1)

\* The line process_records adds to branch_tmp.group.txt for one part: the
\* part identifier and the qIDs of the group.
GroupLine(gene_index, isoform_index, recs) ==
    [pbid |-> <<"PBfusion", gene_index, isoform_index>>, ids |-> recs]

\* Lines 191-196: the lines of one read.
LinesOfRead(indices, gene_index) ==
    [k \in 1..Len(indices) |->
        GroupLine(gene_index, k - 1, merged_exons[indices[k]])]

\* Lines 189-197 for the reads in the order the dict yields them.
RECURSIVE WriteAll(_, _)
WriteAll(order, n) ==
    IF n = 0 THEN <<>>
    ELSE WriteAll(order, n - 1) \o LinesOfRead(ptr[order[n]], n)

Orders(S) == {o \in [1..Cardinality(S) -> S] : \A i, j \in DOMAIN o : i # j => o[i] # o[j]}

\* pbid.split('.')[1]
GeneField(pbid) == pbid[2]

\* pbid[:pbid.rfind('.')]
StripPart(pbid) == SubSeq(pbid, 1, Len(pbid) - 1)

\* Mutant of PairGroup: the union of the two read sets.
PairGroup_union(groups1, groups2) == Range(groups1) \cup Range(groups2)

\* Line 212: set(groups1.split(',')).intersection(groups2.split(',')).
PairGroup(groups1, groups2) == Range(groups1) \cap Range(groups2)

InitAsm ==
    /\ merged_exons \in {<<>>} \cup SeqsUpTo(GroupPool, MaxGroups)
    /\ ptr = BuildPointer(<<>>, merged_exons, 1)
    /\ tmp = <<>>
    /\ rd = 0
    /\ rows = <<>>
    /\ count = 0
    /\ astatus = "start"
    /\ IdleM /\ IdleC /\ IdleS

\* Step 3: the temporary group file is written, read by read.
WriteTmp ==
    /\ astatus = "start"
    /\ \E order \in Orders(DOMAIN ptr) : tmp' = WriteAll(order, Len(order))
    /\ astatus' = "written"
    /\ UNCHANGED <<merged_exons, ptr, rd, rows, count>>
    /\ UNCHANGED <<vars_m, vars_c, vars_s>>

\* Step 4, one iteration of the while loop (lines 206-214): an empty first
\* line ends the loop; a missing second line fails to unpack and lines of
\* two genes fail the assertion, either of which ends the run.
PairStep ==
    /\ astatus = "written"
    /\ IF rd = Len(tmp)
       THEN astatus' = "done" /\ UNCHANGED <<rd, rows, count>>
       ELSE IF rd + 1 = Len(tmp)
       THEN astatus' = "crash" /\ rd' = rd + 1 /\ UNCHANGED <<rows, count>>
       ELSE LET l1 == tmp[rd + 1]
                l2 == tmp[rd + 2]
            IN  /\ rd' = rd + 2
                /\ IF GeneField(l1.pbid) # GeneField(l2.pbid)
                   THEN astatus' = "crash" /\ UNCHANGED <<rows, count>>
                   ELSE /\ rows' = Append(rows, [id |-> StripPart(l1.pbid),
                                                 reads |-> PairGroup(l1.ids, l2.ids)])
                        /\ count' = count + 1
                        /\ astatus' = astatus
    /\ UNCHANGED <<merged_exons, ptr, tmp>>
    /\ UNCHANGED <<vars_m, vars_c, vars_s>>

NextAsm == WriteTmp \/ PairStep

SpecAsm == InitAsm /\ [][NextAsm]_vars

(***************************************************************************)
(* Properties of the pairing pass.                                         *)
(***************************************************************************)
\* C9: the k-th emitted row is made of the part lines 2k-1 and 2k, which
\* belong to one gene; it carries that gene's identifier (the part
\* identifier without its part number) and exactly the reads listed on both
\* lines; and the count reported equals the number of rows emitted.
C9_RowIsIntersection ==
    /\ count = Len(rows)
    /\ 2 * Len(rows) <= Len(tmp)
    /\ \A k \in 1..Len(rows) :
          LET l1 == tmp[2 * k - 1]
              l2 == tmp[2 * k]
          IN  /\ l1.pbid[2] = l2.pbid[2]
              /\ rows[k].id = <<"PBfusion", l1.pbid[2]>>
              /\ \A q \in AsmReads :
                    q \in rows[k].reads <=>
                        (/\ \E i \in 1..Len(l1.ids) : l1.ids[i] = q
                         /\ \E i \in 1..Len(l2.ids) : l2.ids[i] = q)
              /\ rows[k].reads \subseteq AsmReads

\* Witness of C9: a completed run with a row for every read of three, each
\* row being a proper part of both read sets it was made from.
C9_Witness ==
    /\ astatus = "done"
    /\ Len(rows) = 3 /\ count = 3
    /\ \A k \in 1..Len(rows) :
          /\ rows[k].reads # Range(tmp[2 * k - 1].ids)
          /\ rows[k].reads # Range(tmp[2 * k].ids)
          /\ rows[k].reads # {}

(***************************************************************************)
(* The buffer rule applied to the candidate records only.                  *)
(***************************************************************************)
\* The positions of the candidate records, in input order.
C11_CandIdx ==
    SelectSeq([i \in 1..Len(sam) |-> i], LAMBDA i : sam[i].qID \in fusion_candidates)

C11_Bucket(b, st) == SelectSeq(b, LAMBDA i : sam[i].strand = st)

C11_Window(b) == [st \in Strands |-> C11_Bucket(b, st)]

\* Flush before candidate idx[k] iff the buffer b is non-empty and the
\* record is on another contig than b's first or starts after the end of
\* b's last; flush the rest at the end of the input.
RECURSIVE C11_RefRun(_, _, _, _)
C11_RefRun(idx, k, b, ws) ==
    IF k > Len(idx)
    THEN IF b = <<>> THEN ws ELSE Append(ws, C11_Window(b))
    ELSE LET r == sam[idx[k]]
             flush == /\ b # <<>>
                      /\ \/ r.sID # sam[b[1]].sID
                         \/ r.sStart > sam[b[Len(b)]].sEnd
         IN  IF flush
             THEN C11_RefRun(idx, k + 1, <<idx[k]>>, Append(ws, C11_Window(b)))
             ELSE C11_RefRun(idx, k + 1, Append(b, idx[k]), ws)

C11_RefWindows == C11_RefRun(C11_CandIdx, 1, <<>>, <<>>)

\* The places <<window, strand, position>> of the emitted windows.
C11_Places ==
    {p \in (1..Len(windows)) \X Strands \X (1..Len(sam)) :
        p[3] <= Len(windows[p[1]][p[2]])}

C11_At(p) == windows[p[1]][p[2]][p[3]]

\* Every candidate record is at exactly one place, that of its strand; no
\* other record is at any place; records keep the input order inside a
\* bucket and from one window to the next; no window is empty.
C11_WindowsPartitionCandidates ==
    /\ \A i \in 1..Len(sam) :
          Cardinality({p \in C11_Places : C11_At(p) = i})
              = (IF sam[i].qID \in fusion_candidates THEN 1 ELSE 0)
    /\ \A p \in C11_Places :
          /\ C11_At(p) \in 1..Len(sam)
          /\ sam[C11_At(p)].strand = p[2]
    /\ \A p \in C11_Places, q \in C11_Places :
          (p[1] < q[1] \/ (p[1] = q[1] /\ p[2] = q[2] /\ p[3] < q[3]))
              => C11_At(p) < C11_At(q)
    /\ \A w \in 1..Len(windows) : \E p \in C11_Places : p[1] = w

\* C11 as stated: on every input on which the generator does not abort, the
\* emitted windows are those of the buffer rule applied to the candidate
\* records only, and they partition the candidate records.
C11_WindowsAsCandidatesOnly_Stated ==
    sstatus = "done" =>
        (windows = C11_RefWindows /\ C11_WindowsPartitionCandidates)

\* C11, amended: on every input that is non-decreasing by (contigID,
\* refStart) and on which the generator does not abort, the emitted windows
\* are those of the buffer rule applied to the candidate records only, and
\* they partition the candidate records: each candidate record in exactly one
\* window, in input order and in the bucket of its strand, no other record in
\* any window, no window empty.
C11_WindowsAsCandidatesOnly ==
    (sstatus = "done" /\ SortedSam) =>
        (windows = C11_RefWindows /\ C11_WindowsPartitionCandidates)

\* Witness of C11: a sorted input of one contig, read to its end, in which a
\* record that is no candidate lies beyond the buffered candidate and closes
\* its window before the next candidate arrives.
C11_Witness ==
    /\ sstatus = "done" /\ SortedSam
    /\ Len(sam) = 3
    /\ sam[1].qID \in fusion_candidates
    /\ sam[2].qID \notin fusion_candidates
    /\ sam[3].qID \in fusion_candidates
    /\ sam[1].sID = sam[2].sID /\ sam[2].sID = sam[3].sID
    /\ sam[2].sStart > sam[1].sEnd
    /\ sam[1].strand # sam[3].strand
    /\ Len(windows) = 2

(***************************************************************************)
(* First fit, read off the output of merge_fusion_exons.                   *)
(***************************************************************************)
C12_Groups == output.groups

\* The group that holds record i.
C12_GroupOf(i) == CHOOSE g \in 1..Len(C12_Groups) : i \in Range(C12_Groups[g])

\* The members group h had when record i was placed.
C12_Before(h, i) == {m \in Range(C12_Groups[h]) : m < i}

\* Group h existed when record i was placed and all its members of that
\* moment are compatible with record i.
C12_Qualifies(h, i) ==
    /\ C12_Before(h, i) # {}
    /\ \A m \in C12_Before(h, i) :
          is_fusion_compatible(records[i], records[m], maxDist, allow5) = "True"

\* C12: when merge_fusion_exons returns, its groups are non-empty and hold
\* every record exactly once, in input order inside a group and in the order
\* of creation from group to group; the first record seeds the first group;
\* every later record is in the lowest-indexed group that existed and
\* qualified when it was placed, and starts a new group, after all existing
\* ones, iff no group qualified.
C12_FirstFit ==
    output.status = "ok" =>
        /\ Len(C12_Groups) >= 1
        /\ \A g \in 1..Len(C12_Groups) : Len(C12_Groups[g]) >= 1
        /\ \A i \in 1..Len(records) :
              Cardinality({<<g, k>> \in (1..Len(C12_Groups)) \X (1..Len(records)) :
                              k <= Len(C12_Groups[g]) /\ C12_Groups[g][k] = i}) = 1
        /\ \A g \in 1..Len(C12_Groups) :
              /\ Range(C12_Groups[g]) \subseteq 1..Len(records)
              /\ \A k \in 1..(Len(C12_Groups[g]) - 1) :
                    C12_Groups[g][k] < C12_Groups[g][k + 1]
        /\ \A g \in 1..(Len(C12_Groups) - 1) :
              C12_Groups[g][1] < C12_Groups[g + 1][1]
        /\ C12_Groups[1][1] = 1
        /\ \A i \in 2..Len(records) :
              LET g == C12_GroupOf(i)
                  fits == {h \in 1..Len(C12_Groups) : C12_Qualifies(h, i)}
              IN  /\ fits # {} => (g \in fits /\ \A h \in fits : g <= h)
                  /\ fits = {} => C12_Groups[g][1] = i

\* Witness of C12: three records, the third compatible with the first member
\* of the only group but not with its second, so that it starts a group of
\* its own.
C12_Witness ==
    /\ output.status = "ok"
    /\ Len(records) = 3
    /\ output.groups = <<<<1, 2>>, <<3>>>>
    /\ is_fusion_compatible(records[3], records[1], maxDist, allow5) = "True"
    /\ is_fusion_compatible(records[3], records[2], maxDist, allow5) = "False"

(***************************************************************************)
(* Two parts per fusion gene.                                              *)
(***************************************************************************)
\* The number of part lines of read q: one per recorded group index.
C13_Parts(q) == Len(ptr[q])

\* The rows written for gene g.
C13_RowsOf(g) == {k \in 1..Len(rows) : rows[k].id = <<"PBfusion", g>>}

\* The genes of the part lines row k was built from.
C13_GenesOf(k) == {tmp[2 * k - 1].pbid[2], tmp[2 * k].pbid[2]}

\* C13: a run that completes was given two parts per read and has written
\* exactly one row per gene; no two rows carry the same gene identifier and
\* no row is built from the parts of two genes.
C13_TwoPartsChecked ==
    astatus = "done" =>
        /\ \A q \in DOMAIN ptr : C13_Parts(q) = 2
        /\ \A g \in 1..Cardinality(DOMAIN ptr) : Cardinality(C13_RowsOf(g)) = 1
        /\ \A j, k \in 1..Len(rows) : rows[j].id = rows[k].id => j = k
        /\ \A k \in 1..Len(rows) : Cardinality(C13_GenesOf(k)) = 1

\* The part of C13 the assertion of line 211 does enforce.
C13_RowsFromOneGene ==
    \A k \in 1..Len(rows) : Cardinality(C13_GenesOf(k)) = 1

====
